---- MODULE Spec2Model ----
(***************************************************************************)
(* State-machine model of resilient_code: the decorator `resilient`        *)
(* (function form), the context manager / iterator `Resilient` (scoped     *)
(* forms), the back-off calculator and the argument validator.             *)
(*                                                                         *)
(* One behaviour is one engine (one wrapped function, or one Resilient     *)
(* instance) used by a caller for up to MaxCalls invocations.  The unit of *)
(* work is an input: each execution either completes or raises.            *)
(***************************************************************************)
EXTENDS Integers, Sequences, FiniteSets, TLC

\* ---------------------------------------------------------------- bounds
MaxN == 3          \* largest max_tries explored
MaxCalls == 2      \* invocations (or for-loops) made with one engine
MaxAttempts == 5   \* executions of the unit of work followed per invocation

\* Delays are integers in units of 1/TimeUnit second, fine enough for every
\* percentage jitter step of one instance to be exact.
TimeUnit == 100 ^ MaxN

\* random.random() * 0.05, in percent
JitterPct == {0, 4}

\* ---------------------------------------------------------- Python values
\* A value is its runtime type and its str() form (a sequence of characters).
Short == [t |-> "str", s |-> <<"x">>]
Long == [t |-> "list", s |-> <<"[", "1", "]">>]
Obj == [t |-> "object", s |-> <<"o">>]
Func == [t |-> "function", s |-> <<"f">>]
None == [t |-> "NoneType", s |-> <<"None">>]

\* the value the unit of work returns on its k-th execution
ResultOf(k) == [t |-> "result", s |-> <<ToString(k)>>]

NoExc == [type |-> "None", origin |-> "none", attempt |-> 0]

\* the exception the unit of work raises on its k-th execution
WorkExc(k) == [type |-> "ValueError", origin |-> "work", attempt |-> k]

EngineExc(type, origin) == [type |-> type, origin |-> origin, attempt |-> 0]

\* locals of the failing frame on the k-th execution
FrameLocals(k) ==
    [n \in {"a", "b", "attempt_no", "_c", "self", "helper"} |->
        IF n = "b" THEN Long
        ELSE IF n = "attempt_no" THEN [t |-> "int", s |-> <<ToString(k)>>]
        ELSE IF n = "self" THEN Obj
        ELSE IF n = "helper" THEN Func
        ELSE Short]

\* names bound in the caller's scope before the guard is constructed; "a" is
\* bound before the guarded block and bound again inside it
ScopeAtConstruction == {"a", "_c", "self", "helper"}

\* names i with i[0] == '_'
IsPrivate(n) == n \in {"_c", "_exception_handler"}

EmptyMap == [n \in {} |-> None]

Restrict(f, S) == [n \in S |-> f[n]]

\* -------------------------------------------------------- configurations
Forms == {"func", "with", "iter"}

DefaultTypes ==
    [max_tries |-> "int", whitelist_var |-> "list[str]", blacklist_var |-> "list[str]",
     max_var_str_len |-> "int", to_log |-> "bool", reraise |-> "bool", to_pickle |-> "bool",
     to_pickle_path |-> "str", custom_log_msg |-> "str"]

\* exponential_backoff values: runtime type, keys present, type of the
\* values stored under those keys, and the two bounds
BoFalse == [t |-> "bool", keys |-> {}, vt |-> "float", min |-> 0, max |-> 0]
BoDict == [t |-> "dict", keys |-> {"min", "max"}, vt |-> "float", min |-> TimeUnit, max |-> 3 * TimeUnit]
BoEmptyDict == [t |-> "dict", keys |-> {}, vt |-> "float", min |-> 0, max |-> 0]
BoNoMin == [t |-> "dict", keys |-> {"max"}, vt |-> "float", min |-> 0, max |-> 3 * TimeUnit]
BoNoMax == [t |-> "dict", keys |-> {"min"}, vt |-> "float", min |-> TimeUnit, max |-> 0]
BoStrValues == [t |-> "dict", keys |-> {"min", "max"}, vt |-> "str", min |-> 0, max |-> 0]
BoInt == [t |-> "int", keys |-> {}, vt |-> "float", min |-> 0, max |-> 0]
\* further well-formed bounds: ceiling reached at the second delay, constant
\* interval, zero floor
BoCapped == [BoDict EXCEPT !.min = 2 * TimeUnit]
BoConstant == [BoDict EXCEPT !.max = TimeUnit]
BoZeroMin == [BoDict EXCEPT !.min = 0]

\* bool(exponential_backoff)
Truthy(b) == (b.t = "dict" /\ b.keys # {}) \/ b.t = "int"

\* the (args, kwargs) the wrapper is called with
NoArgs == [args |-> <<>>, kwargs |-> EmptyMap]
ShortArgLongKwarg == [args |-> <<Short>>, kwargs |-> [n \in {"k"} |-> Long]]
LongArg == [args |-> <<Short, Long>>, kwargs |-> EmptyMap]
CallShapes == {NoArgs, ShortArgLongKwarg, LongArg}

BaseConfig ==
    [form |-> "func", ty |-> DefaultTypes, max_tries |-> 2, whitelist_var |-> {},
     blacklist_var |-> {}, max_var_str_len |-> 2, to_log |-> TRUE, reraise |-> TRUE,
     to_pickle |-> FALSE, custom_log_msg |-> "", exponential_backoff |-> BoDict,
     call |-> NoArgs]

NameLists == {{}, {"a"}, {"b"}}

FullConfigs ==
    {[BaseConfig EXCEPT !.form = x[1], !.max_tries = x[2], !.whitelist_var = x[3],
                        !.blacklist_var = x[4], !.to_log = x[5], !.reraise = x[6],
                        !.to_pickle = x[7], !.exponential_backoff = x[8], !.call = x[9]] :
        x \in (Forms \X (1..MaxN) \X NameLists \X NameLists \X BOOLEAN \X BOOLEAN \X BOOLEAN
               \X {BoFalse, BoDict} \X {NoArgs})}
    \cup
    {[BaseConfig EXCEPT !.max_tries = x[1], !.to_log = x[2], !.reraise = x[3],
                        !.to_pickle = x[4], !.call = x[5]] :
        x \in ((1..MaxN) \X BOOLEAN \X BOOLEAN \X BOOLEAN \X (CallShapes \ {NoArgs}))}

WrongType(a) ==
    IF a \in {"whitelist_var", "blacklist_var"} THEN "dict"
    ELSE IF a \in {"to_pickle_path", "custom_log_msg"} THEN "int"
    ELSE "str"

\* configurations off the main grid: one argument of the wrong type, a list
\* with a non-string element, out-of-range numbers, unusual back-off values
EdgeConfigs ==
    {[BaseConfig EXCEPT !.form = f, !.ty[a] = WrongType(a)] :
        f \in Forms, a \in DOMAIN DefaultTypes}
    \cup {[BaseConfig EXCEPT !.form = f, !.ty[a] = "list[int]"] :
        f \in Forms, a \in {"whitelist_var", "blacklist_var"}}
    \cup {[BaseConfig EXCEPT !.form = f, !.ty.max_tries = "bool", !.max_tries = 1] : f \in Forms}
    \cup {[BaseConfig EXCEPT !.form = f, !.max_tries = n] : f \in Forms, n \in {-1, 0}}
    \cup {[BaseConfig EXCEPT !.form = f, !.max_var_str_len = m] : f \in Forms, m \in {-1, 0, 3}}
    \cup {[BaseConfig EXCEPT !.form = f, !.custom_log_msg = "msg", !.reraise = r] :
        f \in Forms, r \in BOOLEAN}
    \cup {[BaseConfig EXCEPT !.form = f, !.max_tries = n, !.exponential_backoff = b] :
        f \in Forms, n \in 1..MaxN, b \in {BoEmptyDict, BoNoMin, BoNoMax, BoStrValues, BoInt}}
    \cup {[BaseConfig EXCEPT !.form = f, !.max_tries = n, !.exponential_backoff = b] :
        f \in Forms, n \in 1..MaxN, b \in {BoCapped, BoConstant, BoZeroMin}}

Configs == FullConfigs \cup EdgeConfigs

\* ------------------------------------------------------------- validator
MaxTriesPositiveOffByOne(n) == n >= 0

\* max_tries > 0
MaxTriesPositive(n) == n > 0

\* _check_input_arguments: "ok", or the type of the error it raises
CheckInputArguments(c) ==
    LET bo == c.exponential_backoff
        numeric(k) == k \notin bo.keys \/ bo.vt \in {"float", "int"}
    IN  IF c.ty.max_tries \notin {"int", "bool"} THEN "TypeError"
        ELSE IF ~MaxTriesPositive(c.max_tries) THEN "ValueError"
        ELSE IF c.ty.whitelist_var \notin {"list[str]", "list[int]"} THEN "TypeError"
        ELSE IF c.ty.whitelist_var # "list[str]" THEN "ValueError"
        ELSE IF c.ty.blacklist_var \notin {"list[str]", "list[int]"} THEN "TypeError"
        ELSE IF c.ty.blacklist_var # "list[str]" THEN "ValueError"
        ELSE IF c.ty.max_var_str_len \notin {"int", "bool"} THEN "TypeError"
        ELSE IF ~(c.max_var_str_len >= 0) THEN "ValueError"
        ELSE IF c.ty.to_log # "bool" THEN "TypeError"
        ELSE IF c.ty.reraise # "bool" THEN "TypeError"
        ELSE IF c.ty.to_pickle # "bool" THEN "TypeError"
        ELSE IF c.ty.to_pickle_path # "str" THEN "TypeError"
        ELSE IF c.ty.custom_log_msg # "str" THEN "TypeError"
        ELSE IF ~(bo.t = "dict" \/ ~Truthy(bo)) THEN "TypeError"
        ELSE IF bo.t = "dict" /\ ~(numeric("min") /\ numeric("max")) THEN "ValueError"
        ELSE "ok"

\* --------------------------------------------------------------- back-off
DetermineSleepTimeNoCeiling(current_time, min_time, max_time, j) ==
    LET base == IF current_time = -1 THEN min_time ELSE current_time * 2
    IN  base + (j * base) \div 100

\* _determine_sleep_time with the jitter subtracted instead of added
DetermineSleepTimeJitterBelow(current_time, min_time, max_time, j) ==
    LET base == IF current_time = -1 THEN min_time
                ELSE IF current_time * 2 > max_time THEN max_time
                ELSE current_time * 2
    IN  base - (j * base) \div 100

\* _determine_sleep_time, with the random jitter j given in percent
DetermineSleepTime(current_time, min_time, max_time, j) ==
    LET base == IF current_time = -1 THEN min_time
                ELSE IF current_time * 2 > max_time THEN max_time
                ELSE current_time * 2
    IN  base + (j * base) \div 100

\* -------------------------------------------------------------- reporting
\* str(type(v)) + ' ' + str(v)[:m]
Truncate(v, m) == [t |-> "str", s |-> <<"<class " \o v.t \o ">", " ">> \o SubSeq(v.s, 1, m)]

\* i[:m] for a str, str(i)[:m] otherwise
Shorten(v, m) == [t |-> "str", s |-> SubSeq(v.s, 1, m)]

\* the loop that truncates the values of the logged dump in place
TruncateDump(dump, whitelist_var, blacklist_var, m) ==
    [n \in DOMAIN dump |->
        IF whitelist_var # {} /\ n \notin whitelist_var THEN dump[n]
        ELSE IF blacklist_var # {} /\ n \in blacklist_var THEN dump[n]
        ELSE IF Len(dump[n].s) > m THEN Truncate(dump[n], m)
        ELSE dump[n]]

PickleErrorRecord == [kind |-> "pickle_error", label |-> "", custom |-> "", traceback |-> NoExc,
                      args |-> <<>>, kwargs |-> EmptyMap, dump |-> EmptyMap]

\* What a reporting step produces: the exception it raises itself (NoExc when
\* none), the records it logs and the mappings it pickles.
Report(raised, logs, dumps) == [raised |-> raised, logs |-> logs, dumps |-> dumps]

PickleUncaught(to_pickle, dump, pf) ==
    [raised |-> IF to_pickle /\ pf THEN EngineExc("OSError", "pickle") ELSE NoExc,
     logs |-> <<>>,
     dumps |-> IF to_pickle /\ ~pf THEN <<dump>> ELSE <<>>]

\* pickle.dump in its try/except; pf: the dump fails.  The except clause
\* logs the failure, so nothing is raised.
Pickle(to_pickle, dump, pf) ==
    [raised |-> NoExc,
     logs |-> IF to_pickle /\ pf THEN <<PickleErrorRecord>> ELSE <<>>,
     dumps |-> IF to_pickle /\ ~pf THEN <<dump>> ELSE <<>>]

\* wrapper_resilient after the last failed attempt, up to logging.error(msg)
FuncReport(c, exc, local_var_dump, pf) ==
    LET m == c.max_var_str_len
        args == c.call.args
        kwargs == c.call.kwargs
        p == Pickle(c.to_pickle, local_var_dump, pf)
        msg == [kind |-> "error", label |-> "function",
                custom |-> c.custom_log_msg,
                traceback |-> IF ~c.reraise THEN exc ELSE NoExc,
                args |-> args,
                kwargs |-> [k \in DOMAIN kwargs |->
                               IF Len(kwargs[k].s) > m THEN Shorten(kwargs[k], m) ELSE kwargs[k]],
                dump |-> TruncateDump(local_var_dump, c.whitelist_var, c.blacklist_var, m)]
    IN  IF p.raised # NoExc THEN Report(p.raised, p.logs, p.dumps)
        ELSE IF ~c.to_log THEN Report(NoExc, p.logs, p.dumps)
        ELSE IF \E idx \in 1..Len(args) : Len(args[idx].s) > m
             THEN \* args is a tuple: args[idx] = ... raises
                  Report(EngineExc("TypeError", "report"), p.logs, p.dumps)
        ELSE Report(NoExc, p.logs \o <<msg>>, p.dumps)

\* locals() of Resilient.__init__ without the underscore names
InitLocals ==
    {"self", "max_tries", "whitelist_var", "blacklist_var", "max_var_str_len", "to_log",
     "reraise", "exponential_backoff", "to_pickle", "to_pickle_path", "custom_log_msg"}

\* whether Resilient.__init__ sets self.original_keys
SetsOriginalKeys(c, handler_given) ==
    c.whitelist_var = {} /\ ~handler_given /\ (c.to_log \/ c.to_pickle)

\* types left out of the dump of a scoped guard
NoiseTypes == {"function", "module", "method", "type"}

\* Resilient.__exit__ of a guard without a handoff, from the capture of the
\* frame up to logging.error(msg)
ExitReport(c, has_original_keys, exc, var_dump, pf) ==
    LET m == c.max_var_str_len
        filtered == {k \in DOMAIN var_dump : ~IsPrivate(k) /\ var_dump[k].t \notin NoiseTypes}
        final_var_dump ==
            IF c.whitelist_var # {}
            THEN Restrict(var_dump, c.whitelist_var \cap DOMAIN var_dump)
            ELSE Restrict(var_dump, filtered \ InitLocals)
        p == Pickle(c.to_pickle, final_var_dump, pf)
        msg == [kind |-> "error", label |-> "Code block",
                custom |-> c.custom_log_msg,
                traceback |-> IF ~c.reraise THEN exc ELSE NoExc,
                args |-> <<>>, kwargs |-> EmptyMap,
                dump |-> TruncateDump(final_var_dump, c.whitelist_var, c.blacklist_var, m)]
    IN  IF c.whitelist_var = {} /\ ~has_original_keys
        THEN \* self.original_keys was never set
             Report(EngineExc("AttributeError", "report"), <<>>, <<>>)
        ELSE IF p.raised # NoExc THEN Report(p.raised, p.logs, p.dumps)
        ELSE Report(NoExc, p.logs \o (IF c.to_log THEN <<msg>> ELSE <<>>), p.dumps)

ExitSwallowsAlways(reraise) == TRUE

\* the value __exit__ returns after reporting: True swallows the exception
ExitSwallows(reraise) == ~reraise

\* ------------------------------------------------------------------ state
VARIABLES
    cfg,                \* the arguments given to resilient(...) / Resilient(...)
    pc,                 \* where the caller and the engine are
    call,               \* number of the current invocation of the engine
    tries,              \* tries (function form), self.tries (scoped form)
    sleep_time,         \* sleep_time / self.sleep_time, -1 when unset
    has_original_keys,  \* whether self.original_keys exists
    handler,            \* the _exception_handler dict shared with the guards
    history,            \* outcome of each execution of the unit of work in this invocation
    pauses,             \* time.sleep calls in this invocation
    log,                \* logging.error records of this invocation
    dumps,              \* mappings pickled in this invocation
    outcome             \* what the caller observes of this invocation

vars == <<cfg, pc, call, tries, sleep_time, has_original_keys, handler, history, pauses, log,
          dumps, outcome>>

Pending == [kind |-> "pending", value |-> None, exc |-> NoExc]
Returned(v) == [kind |-> "returned", value |-> v, exc |-> NoExc]
Raised(e) == [kind |-> "raised", value |-> None, exc |-> e]

\* values of _exception_handler['exception']
HNone == [kind |-> "None", exc |-> NoExc]
HTrue == [kind |-> "True", exc |-> NoExc]
HTriple(e) == [kind |-> "triple", exc |-> e]

\* {'last_iter': False, 'exception': None}
NewHandler == [last_iter |-> FALSE, exception |-> HNone, has_var_dump |-> FALSE,
               var_dump |-> EmptyMap]

Init ==
    /\ cfg \in Configs
    /\ pc = "start"
    /\ call = 1
    /\ tries = 0
    /\ sleep_time = -1
    /\ has_original_keys = FALSE
    /\ handler = NewHandler
    /\ history = <<>>
    /\ pauses = 0
    /\ log = <<>>
    /\ dumps = <<>>
    /\ outcome = Pending

\* ------------------------------------------------------------ the engines
AttemptsRemainOffByOne(t, n) == t <= n

\* tries < max_tries
AttemptsRemain(t, n) == t < n

\* the back-off step between two attempts; j is the jitter drawn
Pause(bo, current, j) ==
    IF ~Truthy(bo)
    THEN [raised |-> NoExc, sleep_time |-> current, slept |-> 0]
    ELSE IF ~({"min", "max"} \subseteq bo.keys)
    THEN [raised |-> EngineExc("KeyError", "backoff"), sleep_time |-> current, slept |-> 0]
    ELSE [raised |-> NoExc, sleep_time |-> DetermineSleepTime(current, bo.min, bo.max, j),
          slept |-> 1]

\* wrapper_resilient is called: validation, then tries = 0 and sleep_time = -1
Call ==
    /\ cfg.form = "func"
    /\ pc = "start"
    /\ LET check == CheckInputArguments(cfg)
       IN  IF check # "ok"
           THEN /\ outcome' = Raised(EngineExc(check, "validator"))
                /\ pc' = "done"
                /\ UNCHANGED <<tries, sleep_time>>
           ELSE /\ tries' = 0
                /\ sleep_time' = -1
                /\ pc' = "loop"
                /\ UNCHANGED outcome
    /\ UNCHANGED <<cfg, call, has_original_keys, handler, history, pauses, log, dumps>>

\* one pass through the body of `while True` of wrapper_resilient
Attempt ==
    /\ cfg.form = "func"
    /\ pc = "loop"
    /\ Len(history) < MaxAttempts
    /\ \E ok \in BOOLEAN, j \in JitterPct, pf \in BOOLEAN :
        LET k == Len(history) + 1
            t == tries + 1
            p == Pause(cfg.exponential_backoff, sleep_time, j)
            r == FuncReport(cfg, WorkExc(k), FrameLocals(k), pf)
        IN  /\ history' = Append(history, ok)
            /\ tries' = t
            /\ IF ok
               THEN \* r is assigned and the loop goes round again
                    /\ pc' = "loop"
                    /\ UNCHANGED <<sleep_time, pauses, log, dumps, outcome>>
               ELSE IF AttemptsRemain(t, cfg.max_tries)
               THEN /\ sleep_time' = p.sleep_time
                    /\ pauses' = pauses + p.slept
                    /\ IF p.raised # NoExc
                       THEN outcome' = Raised(p.raised) /\ pc' = "done"
                       ELSE pc' = "loop" /\ UNCHANGED outcome
                    /\ UNCHANGED <<log, dumps>>
               ELSE /\ log' = log \o r.logs
                    /\ dumps' = dumps \o r.dumps
                    /\ outcome' = IF r.raised # NoExc THEN Raised(r.raised)
                                  ELSE IF cfg.reraise THEN Raised(WorkExc(k))
                                  ELSE Returned(None)
                    /\ pc' = "done"
                    /\ UNCHANGED <<sleep_time, pauses>>
    /\ UNCHANGED <<cfg, call, has_original_keys, handler>>

\* Resilient(...) is constructed by the caller
Construct ==
    /\ cfg.form \in {"with", "iter"}
    /\ pc = "start"
    /\ LET check == CheckInputArguments(cfg)
       IN  IF check # "ok"
           THEN /\ outcome' = Raised(EngineExc(check, "validator"))
                /\ pc' = "done"
                /\ UNCHANGED <<tries, sleep_time, has_original_keys>>
           ELSE /\ tries' = 0
                /\ sleep_time' = -1
                /\ has_original_keys' = SetsOriginalKeys(cfg, FALSE)
                /\ pc' = "constructed"
                /\ UNCHANGED outcome
    /\ UNCHANGED <<cfg, call, handler, history, pauses, log, dumps>>

\* `with Resilient(...):` -- __enter__, the block, __exit__
WithBlock ==
    /\ cfg.form = "with"
    /\ pc = "constructed"
    /\ \E ok \in BOOLEAN, pf \in BOOLEAN :
        LET k == Len(history) + 1
            r == ExitReport(cfg, has_original_keys, WorkExc(k), FrameLocals(k), pf)
        IN  /\ history' = Append(history, ok)
            /\ IF ok
               THEN /\ outcome' = Returned(None)
                    /\ UNCHANGED <<log, dumps>>
               ELSE /\ log' = log \o r.logs
                    /\ dumps' = dumps \o r.dumps
                    /\ outcome' = IF r.raised # NoExc THEN Raised(r.raised)
                                  ELSE IF ExitSwallows(cfg.reraise) THEN Returned(None)
                                  ELSE Raised(WorkExc(k))
    /\ pc' = "done"
    /\ UNCHANGED <<cfg, call, tries, sleep_time, has_original_keys, handler, pauses>>

IterMisuseNever(n) == FALSE

\* self.max_tries == 1
IterMisuse(n) == n = 1

\* self.tries >= self.max_tries
Exhausted(t, n) == t >= n

\* `for attempt in Resilient(...)`: __iter__ up to its first yield
IterStart ==
    /\ cfg.form = "iter"
    /\ pc = "constructed"
    /\ IF IterMisuse(cfg.max_tries)
       THEN /\ outcome' = Raised(EngineExc("ValueError", "iter"))
            /\ pc' = "done"
            /\ UNCHANGED <<tries, handler>>
       ELSE /\ handler' = NewHandler
            /\ tries' = tries + 1
            /\ pc' = "block"
            /\ UNCHANGED outcome
    /\ UNCHANGED <<cfg, call, sleep_time, has_original_keys, history, pauses, log, dumps>>

\* __exit__ of a guard that was given the handoff: always returns True
GuardExit(h, exc, frame) ==
    IF h.last_iter
    THEN [h EXCEPT !.exception = HTriple(exc), !.has_var_dump = TRUE, !.var_dump = frame]
    ELSE [h EXCEPT !.exception = HTrue]

\* `with attempt:` -- __enter__, the block, __exit__ of the yielded guard
GuardBlock ==
    /\ cfg.form = "iter"
    /\ pc = "block"
    /\ \E ok \in BOOLEAN :
        LET k == Len(history) + 1
        IN  /\ history' = Append(history, ok)
            /\ handler' = IF ok THEN handler ELSE GuardExit(handler, WorkExc(k), FrameLocals(k))
    /\ pc' = "resume"
    /\ UNCHANGED <<cfg, call, tries, sleep_time, has_original_keys, pauses, log, dumps, outcome>>

\* __iter__ from the statement after its yield to the next yield or its end
IterResume ==
    /\ cfg.form = "iter"
    /\ pc = "resume"
    /\ \E j \in JitterPct, pf \in BOOLEAN :
        LET p == Pause(cfg.exponential_backoff, sleep_time, j)
            r == ExitReport(cfg, has_original_keys, handler.exception.exc, handler.var_dump, pf)
        IN  IF handler.exception.kind = "None"
            THEN \* break: the generator ends
                 /\ outcome' = Returned(None)
                 /\ pc' = "done"
                 /\ UNCHANGED <<tries, sleep_time, handler, pauses, log, dumps>>
            ELSE IF Exhausted(tries, cfg.max_tries)
            THEN IF ~handler.has_var_dump
                 THEN \* _exception_handler['_var_dump'] was never stored
                      /\ outcome' = Raised(EngineExc("KeyError", "iter"))
                      /\ pc' = "done"
                      /\ UNCHANGED <<tries, sleep_time, handler, pauses, log, dumps>>
                 ELSE \* return self.__exit__(...): the generator ends with its value
                      /\ log' = log \o r.logs
                      /\ dumps' = dumps \o r.dumps
                      /\ outcome' = IF r.raised # NoExc THEN Raised(r.raised)
                                    ELSE Returned(None)
                      /\ pc' = "done"
                      /\ UNCHANGED <<tries, sleep_time, handler, pauses>>
            ELSE /\ handler' = IF tries + 1 = cfg.max_tries
                               THEN [handler EXCEPT !.last_iter = TRUE]
                               ELSE handler
                 /\ sleep_time' = p.sleep_time
                 /\ pauses' = pauses + p.slept
                 /\ IF p.raised # NoExc
                    THEN /\ outcome' = Raised(p.raised)
                         /\ pc' = "done"
                         /\ UNCHANGED tries
                    ELSE /\ tries' = tries + 1
                         /\ pc' = "block"
                         /\ UNCHANGED outcome
                 /\ UNCHANGED <<log, dumps>>
    /\ UNCHANGED <<cfg, call, has_original_keys, history>>

\* the caller uses the same wrapped function / the same instance once more
Again ==
    /\ pc = "done"
    /\ call < MaxCalls
    /\ CheckInputArguments(cfg) = "ok"
    /\ call' = call + 1
    /\ pc' = IF cfg.form = "func" THEN "start" ELSE "constructed"
    /\ history' = <<>>
    /\ pauses' = 0
    /\ log' = <<>>
    /\ dumps' = <<>>
    /\ outcome' = Pending
    /\ UNCHANGED <<cfg, tries, sleep_time, has_original_keys, handler>>

Next ==
    \/ Call
    \/ Attempt
    \/ Construct
    \/ WithBlock
    \/ IterStart
    \/ GuardBlock
    \/ IterResume
    \/ Again

Spec == Init /\ [][Next]_vars

\* ----------------------------------------------------------- vocabulary
\* the validator accepts the configuration
Valid == CheckInputArguments(cfg) = "ok"

\* the configuration is a RetryConfig of the data model: accepted by the
\* validator, with back-off either absent or carrying both bounds
IsRetryConfig ==
    /\ Valid
    /\ (Truthy(cfg.exponential_backoff) => {"min", "max"} \subseteq cfg.exponential_backoff.keys)

Attempts == Len(history)

AllFailed == \A i \in 1..Len(history) : ~history[i]

HasSuccess == \E i \in 1..Len(history) : history[i]

\* number of the first execution that completed normally
FirstSuccess == CHOOSE i \in 1..Len(history) : history[i] /\ \A h \in 1..(i - 1) : ~history[h]

\* the primary records logged so far
ErrorRecords == SelectSeq(log, LAMBDA rec : rec.kind = "error")

\* what the reraise policy lets the caller see after a final failure
PolicyOutcome == IF cfg.reraise THEN Raised(WorkExc(Attempts)) ELSE Returned(None)

\* C1 - a unit of work that fails every time is executed exactly max_tries
\* times before the engine gives up: never more, the engine does not give up
\* earlier, and it does not go on after the max_tries-th failure (function
\* form for n >= 1, for-loop form for n >= 2 on a fresh instance).
C1_ExactlyNAttempts ==
    (/\ IsRetryConfig
     /\ AllFailed
     /\ \/ cfg.form = "func"
        \/ cfg.form = "iter" /\ cfg.max_tries >= 2 /\ call = 1)
    => /\ Attempts <= cfg.max_tries
       /\ pc = "done" => Attempts = cfg.max_tries
       /\ Attempts = cfg.max_tries => pc \in {"done", "resume"}

C1_Witness ==
    /\ IsRetryConfig /\ AllFailed /\ pc = "done"
    /\ cfg.form = "iter" /\ call = 1
    /\ cfg.max_tries = 3 /\ Attempts = 3

\* C2 - function form, max_tries > 1: once the callable has succeeded on
\* attempt k <= max_tries (after failing k-1 times) the wrapper has executed
\* it exactly k times and has returned its result, with nothing logged or
\* dumped and exactly k-1 pauses when back-off is configured.
C2_SuccessReturns ==
    (/\ cfg.form = "func" /\ IsRetryConfig /\ cfg.max_tries > 1
     /\ HasSuccess /\ FirstSuccess <= cfg.max_tries)
    => /\ Attempts = FirstSuccess
       /\ pc = "done"
       /\ outcome = Returned(ResultOf(FirstSuccess))
       /\ log = <<>> /\ dumps = <<>>
       /\ Truthy(cfg.exponential_backoff) => pauses = FirstSuccess - 1

\* C3 - for-loop form, max_tries > 1: once the block has completed normally
\* on attempt k <= max_tries and the iterator has been resumed, the loop has
\* ended without an exception, the block was executed k times, nothing was
\* reported and k-1 pauses occurred.
C3_IterStopsOnSuccess ==
    (/\ cfg.form = "iter" /\ IsRetryConfig /\ cfg.max_tries > 1 /\ call = 1
     /\ HasSuccess /\ FirstSuccess <= cfg.max_tries
     /\ ~(pc = "resume" /\ Attempts = FirstSuccess))
    => /\ pc = "done"
       /\ outcome = Returned(None)
       /\ Attempts = FirstSuccess
       /\ log = <<>> /\ dumps = <<>>
       /\ Truthy(cfg.exponential_backoff) => pauses = FirstSuccess - 1

\* C4 - function form, callable failing on every attempt, any to_log and
\* to_pickle: when the wrapper is done the caller has None and no exception
\* if reraise is false, and the last attempt's exception if reraise is true.
C4_ReraiseContract ==
    (cfg.form = "func" /\ IsRetryConfig /\ AllFailed /\ pc = "done")
    => outcome = PolicyOutcome

\* C5 - for-loop form, max_tries >= 2, block failing on all attempts: the
\* engine reports once with the exception of attempt max_tries, then the
\* last failure reaches the caller if reraise is true and the loop ends
\* without an exception if it is false.
C5_IterExhaustion ==
    (/\ cfg.form = "iter" /\ IsRetryConfig /\ cfg.max_tries >= 2 /\ call = 1
     /\ AllFailed /\ pc = "done")
    => /\ cfg.to_log => Len(ErrorRecords) = 1
       /\ cfg.to_log /\ ~cfg.reraise => ErrorRecords[1].traceback = WorkExc(cfg.max_tries)
       /\ outcome = PolicyOutcome

\* C6 - single-attempt guard with to_log true: a block that exits normally
\* leaves no log, no dump and no exception; a block that raises is reported
\* exactly once, then the original exception propagates if reraise is true
\* and is suppressed if it is false.
C6_SingleGuard ==
    (cfg.form = "with" /\ cfg.to_log /\ pc = "done" /\ Attempts = 1)
    => IF history[1]
       THEN log = <<>> /\ dumps = <<>> /\ outcome = Returned(None)
       ELSE /\ Len(ErrorRecords) = 1
            /\ ErrorRecords[1].label = "Code block"
            /\ cfg.reraise => outcome = Raised(WorkExc(1))
            /\ ~cfg.reraise => outcome = Returned(None)

C6_Witness ==
    /\ cfg.form = "with" /\ cfg.to_log /\ ~cfg.reraise /\ pc = "done"
    /\ history = <<FALSE>>
    /\ Len(ErrorRecords) = 1
    /\ outcome = Returned(None)

\* C7 - a configuration the validator rejects (max_tries = 0: ValueError, a
\* max_tries that is not an integer: TypeError) makes both forms raise the
\* validator's error with the unit of work never executed, no second try,
\* no pause, no log record and no dump.
C7_ValidationFirst ==
    /\ ~Valid =>
         /\ history = <<>> /\ pauses = 0 /\ log = <<>> /\ dumps = <<>> /\ call = 1
         /\ pc \in {"start", "done"}
         /\ pc = "done" => outcome = Raised(EngineExc(CheckInputArguments(cfg), "validator"))
    /\ cfg.ty.max_tries = "int" /\ cfg.max_tries = 0 /\ pc # "start" =>
         history = <<>> /\ pc = "done" /\ outcome = Raised(EngineExc("ValueError", "validator"))
    /\ cfg.ty.max_tries = "str" /\ pc # "start" =>
         history = <<>> /\ pc = "done" /\ outcome = Raised(EngineExc("TypeError", "validator"))

C7_Witness ==
    /\ cfg.form = "iter" /\ cfg.ty.max_tries = "int" /\ cfg.max_tries = 0
    /\ pc = "done" /\ history = <<>>
    /\ outcome = Raised(EngineExc("ValueError", "validator"))

\* C8 - iterating a Resilient instance with max_tries == 1 raises ValueError
\* before a guard is produced: the block is executed zero times, there is no
\* pause and nothing is reported.
C8_IterMisuse ==
    (cfg.form = "iter" /\ Valid /\ cfg.max_tries = 1 /\ pc \notin {"start", "constructed"})
    => /\ pc = "done"
       /\ outcome = Raised(EngineExc("ValueError", "iter"))
       /\ history = <<>> /\ pauses = 0 /\ log = <<>> /\ dumps = <<>>

C8_Witness ==
    /\ cfg.form = "iter" /\ Valid /\ cfg.max_tries = 1 /\ pc = "done"
    /\ outcome = Raised(EngineExc("ValueError", "iter"))
    /\ history = <<>>

\* C9 - the reporting step of the function form never raises: whatever the
\* arguments of the call, once the wrapper is done the caller sees the
\* original failure if reraise is true and None if it is false, never an
\* exception produced while reporting.
C9_ReportingNeverRaises ==
    (cfg.form = "func" /\ IsRetryConfig /\ pc = "done")
    => /\ outcome.exc.origin # "report"
       /\ cfg.reraise => outcome = Raised(WorkExc(Attempts))
       /\ ~cfg.reraise => outcome = Returned(None)

\* the invocation ended on a final failure of the unit of work
FinalFailure ==
    /\ pc = "done"
    /\ \/ cfg.form = "func"
       \/ cfg.form = "with" /\ history = <<FALSE>>
       \/ cfg.form = "iter" /\ cfg.max_tries >= 2 /\ call = 1 /\ AllFailed

\* C10 - with to_log and to_pickle false and whitelist_var empty, a final
\* failure in either form leaves no log record and no dump, and the caller
\* sees exactly the reraise policy: the original failure if reraise is true,
\* no exception at all if it is false.
C10_SilentPolicy ==
    (/\ IsRetryConfig /\ ~cfg.to_log /\ ~cfg.to_pickle /\ cfg.whitelist_var = {}
     /\ FinalFailure)
    => /\ log = <<>> /\ dumps = <<>>
       /\ outcome = PolicyOutcome

\* ------------------------------------------------------------ the dumps
\* the frame the report of this invocation was made from
ReportedFrame == FrameLocals(Attempts)

\* every variable dump reported in this invocation, logged or pickled
ReportedDumps ==
    {ErrorRecords[i].dump : i \in 1..Len(ErrorRecords)} \cup {dumps[i] : i \in 1..Len(dumps)}

\* C11 - whitelist precedence, both forms: with whitelist_var non-empty every
\* reported dump (logged or pickled) has exactly the whitelisted names that
\* are in the failure frame, whatever blacklist_var holds.
C11_WhitelistOnly ==
    cfg.whitelist_var # {}
    => \A d \in ReportedDumps : DOMAIN d = cfg.whitelist_var \cap DOMAIN ReportedFrame

\* C12 - blacklist exclusion, both forms: with whitelist_var empty and
\* blacklist_var non-empty no blacklisted name is in a reported dump, logged
\* or pickled.
C12_BlacklistExcluded ==
    (cfg.whitelist_var = {} /\ cfg.blacklist_var # {})
    => \A d \in ReportedDumps : DOMAIN d \cap cfg.blacklist_var = {}

\* names of the frame that are neither underscore names nor bound to a
\* function, module, method or class
DataNames(frame) == {k \in DOMAIN frame : ~IsPrivate(k) /\ frame[k].t \notin NoiseTypes}

\* C13 - scoped forms, whitelist_var (and blacklist_var) empty: the names a
\* guard reports are the data names of the enclosing scope at failure time
\* minus the names bound there when the guard was constructed; a name bound
\* before the block and bound again inside it is not reported.
C13_ScopeDiff ==
    (cfg.form \in {"with", "iter"} /\ cfg.whitelist_var = {} /\ cfg.blacklist_var = {})
    => \A d \in ReportedDumps :
          /\ DOMAIN d = DataNames(ReportedFrame) \ ScopeAtConstruction
          /\ "a" \notin DOMAIN d

\* C14 - truncation, both forms: every value of a logged dump whose string
\* form is longer than max_var_str_len is the string form of its type, a
\* space and the first max_var_str_len characters; every other value is
\* logged unchanged.
C14_Truncation ==
    \A i \in 1..Len(ErrorRecords) :
        LET d == ErrorRecords[i].dump
        IN  \A n \in DOMAIN d :
               d[n] = IF Len(ReportedFrame[n].s) > cfg.max_var_str_len
                      THEN Truncate(ReportedFrame[n], cfg.max_var_str_len)
                      ELSE ReportedFrame[n]

\* ------------------------------------------------- retries and side effects
LastFailed(h) == Len(h) > 0 /\ ~h[Len(h)]

Failures(h) == Cardinality({i \in 1..Len(h) : ~h[i]})

\* C15 - side effects are confined, in every step of an invocation of the
\* function form or the for-loop form: a log record or a dump is emitted
\* only by the step that ends the invocation on the max_tries-th failure,
\* there is at most one primary record, and a pause happens only after a
\* failed attempt that is followed by another attempt, with back-off set.
C15_SideEffectsConfined ==
    [][cfg.form \in {"func", "iter"} =>
         /\ (Len(log') > Len(log) \/ Len(dumps') > Len(dumps)) =>
               /\ LastFailed(history')
               /\ Failures(history') = cfg.max_tries
               /\ pc' = "done"
         /\ Len(SelectSeq(log', LAMBDA rec : rec.kind = "error")) <= 1
         /\ pauses' > pauses =>
               /\ LastFailed(history')
               /\ Truthy(cfg.exponential_backoff)
               /\ pc' \in {"loop", "block"}]_vars

\* C16 - attempt state is fresh in every invocation after the first: the
\* wrapper starts its loop, and the iterator produces its first guard, with
\* no earlier try counted and the delay unset, so a block that always fails
\* is again executed max_tries times.
C16_FreshAttemptState ==
    call > 1 =>
      /\ cfg.form = "func" /\ pc = "loop" /\ history = <<>> => tries = 0 /\ sleep_time = -1
      /\ cfg.form = "iter" /\ pc = "block" /\ history = <<>> => tries = 1 /\ sleep_time = -1
      /\ cfg.form = "iter" /\ IsRetryConfig /\ cfg.max_tries >= 2 /\ AllFailed /\ pc = "done"
            => Attempts = cfg.max_tries

\* exponential_backoff is a dict without a numeric 'min' or without a numeric 'max'
LacksBound(bo) ==
    bo.t = "dict" /\ ~({"min", "max"} \subseteq bo.keys /\ bo.vt \in {"float", "int"})

\* C17 - a dict exponential_backoff that lacks a numeric 'min' or a numeric
\* 'max' is rejected with ValueError before any attempt, so no invocation
\* ever fails on a missing bound when it computes a pause.
C17_BackoffValidated ==
    /\ (/\ LacksBound(cfg.exponential_backoff)
        /\ CheckInputArguments([cfg EXCEPT !.exponential_backoff = BoDict]) = "ok"
        /\ pc # "start")
       => /\ pc = "done"
          /\ history = <<>>
          /\ outcome = Raised(EngineExc("ValueError", "validator"))
    /\ outcome.exc.origin # "backoff"

\* C18 - handoff of the for-loop form: a guard never lets the failure of its
\* block out, a guard is produced with last_iter set exactly when it is the
\* guard of try number max_tries, and so a failed guard stores the exception
\* triple and the frame exactly when it is that guard, a bare signal otherwise.
C18_Handoff ==
    cfg.form = "iter" =>
      /\ pc = "block" => (handler.last_iter <=> tries = cfg.max_tries)
      /\ pc = "resume" => outcome = Pending
      /\ pc = "resume" /\ LastFailed(history) =>
            /\ handler.exception.kind = "triple" <=> tries = cfg.max_tries
            /\ handler.exception.kind = "triple" =>
                  handler.has_var_dump /\ handler.exception.exc = WorkExc(Attempts)
            /\ handler.exception.kind # "triple" =>
                  handler.exception = HTrue /\ ~handler.has_var_dump

\* the secondary records logged so far
PickleErrors == SelectSeq(log, LAMBDA rec : rec.kind = "pickle_error")

\* the invocation ended in a report that got as far as pickle.dump
PickleAttempted ==
    /\ pc = "done" /\ cfg.to_pickle /\ LastFailed(history)
    /\ outcome.exc.origin \notin {"validator", "backoff", "iter"}

\* the report of this invocation had persistence succeeded
ReportIfPickled ==
    IF cfg.form = "func"
    THEN FuncReport(cfg, WorkExc(Attempts), ReportedFrame, FALSE)
    ELSE ExitReport(cfg, has_original_keys, WorkExc(Attempts), ReportedFrame, FALSE)

\* what the caller sees after report r
OutcomeAfter(r) ==
    IF r.raised # NoExc THEN Raised(r.raised)
    ELSE IF cfg.form = "iter" THEN Returned(None)
    ELSE PolicyOutcome

\* C19 - a failing pickle.dump at exhaustion is contained, in both forms: it
\* never reaches the caller, it leaves exactly one secondary record and no
\* dump, and the rest of the log (the primary record when to_log is true)
\* and what the caller sees are what they are when the dump succeeds.
C19_PickleFailureContained ==
    /\ outcome.exc.origin # "pickle"
    /\ PickleAttempted /\ dumps = <<>> =>
         /\ Len(PickleErrors) = 1
         /\ log = <<PickleErrorRecord>> \o ReportIfPickled.logs
         /\ cfg.to_log /\ ReportIfPickled.raised = NoExc => Len(ErrorRecords) = 1
         /\ outcome = OutcomeAfter(ReportIfPickled)

C19_Witness ==
    /\ cfg.form = "with" /\ cfg.to_pickle /\ cfg.to_log /\ cfg.reraise
    /\ PickleAttempted /\ dumps = <<>>
    /\ Len(PickleErrors) = 1 /\ Len(ErrorRecords) = 1
    /\ outcome = Raised(WorkExc(1))

\* C20 - back-off bounds, for 0 <= min <= max: every delay the calculator
\* returns, starting from the unset sentinel and fed its own result, is at
\* least its un-jittered value (min at first, min(2 * previous, max) then)
\* and at most max * 1.05.
C20_BackoffBounds ==
    [][pauses' > pauses =>
         LET bo == cfg.exponential_backoff
             base == IF sleep_time = -1 THEN bo.min
                     ELSE IF 2 * sleep_time < bo.max THEN 2 * sleep_time
                     ELSE bo.max
         IN  (0 <= bo.min /\ bo.min <= bo.max) =>
                /\ sleep_time' >= base
                /\ 100 * sleep_time' <= 105 * bo.max]_vars

C20_Witness ==
    /\ cfg.exponential_backoff = BoCapped
    /\ pauses = 2
    /\ sleep_time >= cfg.exponential_backoff.max
    /\ 100 * sleep_time <= 105 * cfg.exponential_backoff.max

\* a pause whose delay is computed from the delay the previous pause returned
FedPause == pauses' > pauses /\ sleep_time # -1

\* C21: for fixed bounds the delays of successive back-off calls, each fed the
\* delay the previous call returned, never decrease, also once the ceiling max
\* has been reached.
C21_Monotone ==
    [][FedPause => sleep_time' >= sleep_time]_vars

\* C21 as amended: for bounds with min >= 0, a delay is never smaller than the
\* previous one as long as the previous one does not exceed max; after a delay
\* above max (the ceiling plus jitter) the next delay lies between max and
\* 1.05 * max, so it can be smaller than the previous one.
C21_MonotoneBelowCeiling ==
    [][FedPause /\ cfg.exponential_backoff.min >= 0 =>
         LET bo == cfg.exponential_backoff
         IN  /\ sleep_time <= bo.max => sleep_time' >= sleep_time
             /\ sleep_time > bo.max => bo.max <= sleep_time' /\ 100 * sleep_time' <= 105 * bo.max]_vars

\* the second delay of a run: the first one doubled, with jitter on both
C21_Witness ==
    /\ cfg.exponential_backoff = BoDict
    /\ pauses = 2
    /\ sleep_time > 2 * cfg.exponential_backoff.min
    /\ sleep_time <= cfg.exponential_backoff.max

====
